---------------------------- MODULE Spec2Model ----------------------------
(***************************************************************************)
(* Model of the animal-translator fallback pipeline                        *)
(* (src/src/services/huggingFaceService.js) and of the App component that  *)
(* calls it (src/unnamed/part_002, the App component).                     *)
(*                                                                         *)
(* Strings on which the code evaluates String.includes are sequences of    *)
(* tokens; s.includes(w) is "w is a token of s".  Template strings are     *)
(* concatenations of token sequences.  Other strings are TLA+ strings.     *)
(* Confidence values are in thousandths (0.95 is 950).                     *)
(***************************************************************************)
EXTENDS Integers, Sequences, FiniteSets, TLC

(***************************************************************************)
(* Bounds of the model.                                                    *)
(***************************************************************************)
\* how many entries of the transcription candidate list are configured
MaxTranscriptionModels == 2
\* how many entries of the completion candidate list are configured
MaxTranslationModels == 2

(***************************************************************************)
(* Strings                                                                 *)
(***************************************************************************)
Includes(s, w) == \E i \in DOMAIN s : s[i] = w

\* a || b on strings: the empty string is falsy
OrElse(a, b) == IF a # <<>> THEN a ELSE b

Min(a, b) == IF a <= b THEN a ELSE b

\* an absent (undefined) string field
Undefined == "undefined"

(***************************************************************************)
(* Configuration                                                           *)
(***************************************************************************)
AllTranscriptionModels ==
  << "zai-org/GLM-ASR-Nano-2512",
     "facebook/wav2vec2-base-960h",
     "jonatasgrosman/wav2vec2-large-xlsr-53-english",
     "openai/whisper-small",
     "openai/whisper-base",
     "openai/whisper-medium" >>

AllTranslationModels ==
  << "meta-llama/Llama-3.1-8B-Instruct",
     "meta-llama/Meta-Llama-3.1-8B-Instruct",
     "mistralai/Mistral-7B-Instruct-v0.2",
     "mistralai/Mixtral-8x7B-Instruct-v0.1",
     "google/gemma-2-2b-it" >>

\* the candidate lists, cut to the model's bounds (a prefix of the configured list)
TranscriptionModels ==
  SubSeq(AllTranscriptionModels, 1, Min(MaxTranscriptionModels, Len(AllTranscriptionModels)))

TranslationModels ==
  SubSeq(AllTranslationModels, 1, Min(MaxTranslationModels, Len(AllTranslationModels)))

\* the animals offered by the selector that the model selects among
Animals == {"Dog", "Cat"}

\* mutant: no multipart delivery
BinaryVariantsOnly == Len(<<"binary direct", "binary via proxy">>)

\* the delivery variants of one transcription candidate, in the order tried:
\* 1 binary direct, 2 binary via proxy, 3 multipart direct, 4 multipart via proxy
LastVariant == 4


(***************************************************************************)
(* What the remote side may answer                                         *)
(***************************************************************************)
ResponseOk(status) == status >= 200 /\ status <= 299

\* the parsed error body of a non-2xx response: errorData.error,
\* errorData.message, and the raw text when the body is not JSON
NoBody == [error |-> <<>>, message |-> <<>>, raw |-> <<>>]

TranscriptionErrorBodies ==
  { NoBody,
    [NoBody EXCEPT !.error = <<"Invalid credentials">>],
    [NoBody EXCEPT !.message = <<"Gone">>],
    [NoBody EXCEPT !.raw = <<"Service Unavailable">>] }

\* the parsed body of a 2xx transcription response: a bare string, an object
\* (its text and transcription fields, "" when missing or empty), null, or a
\* body that is not JSON; one text is also the mock transcript of an animal
NoResult == [type |-> "none", str |-> "", text |-> "", transcription |-> ""]

TranscriptionResults ==
  { [NoResult EXCEPT !.type = "string", !.str = "grr grr"],
    [NoResult EXCEPT !.type = "string"],
    [NoResult EXCEPT !.type = "object", !.text = "grr grr"],
    [NoResult EXCEPT !.type = "object", !.transcription = "arf"],
    [NoResult EXCEPT !.type = "object", !.text = "meow meow purr"],
    [NoResult EXCEPT !.type = "object"],
    [NoResult EXCEPT !.type = "null"],
    [NoResult EXCEPT !.type = "invalid"] }

TranscriptionErrorStatuses == {401, 403, 404, 410, 500, 503}

TranscriptionResponses ==
  [status : TranscriptionErrorStatuses, errorData : TranscriptionErrorBodies, result : {NoResult}]
  \cup [status : {200}, errorData : {NoBody}, result : TranscriptionResults]

\* the message of the exception a fetch raises (text chosen by the browser)
TransportMessages == { <<"Failed to fetch">>, <<"Error", "loading", "resource">> }

(***************************************************************************)
(* transcribeAnimalSound: one candidate                                    *)
(***************************************************************************)
\* what one pass through the loop body decides
Return(v) == [kind |-> "return", value |-> v, message |-> <<>>]
Throw(m) == [kind |-> "throw", value |-> "", message |-> m]
Push(e) == [kind |-> "push", value |-> "", message |-> e]

StatusText(status) == ToString(status)

\* mutant: no candidate is taken for the first one
IsFirstModelNever(modelId) == FALSE

IsFirstModel(modelId) == modelId = TranscriptionModels[1]

IsAuthStatus(status) == status = 401 \/ status = 403

\* mutant: every failing status ends the loop
TranscriptionFailureFatal(modelId, response) ==
  Throw(<<"Authentication", "failed. Please check your VITE_HF_TOKEN.">>)

\* lines 107-162: a response that is not ok
TranscriptionFailure(modelId, response) ==
  LET status == response.status
      errorData == response.errorData
  IN  IF status = 503
        THEN IF IsFirstModel(modelId)
               THEN Throw(<<"Model is", "loading", "Please wait and try again.">>)
               ELSE Push(<<"Model", modelId, "is", "loading", "503">>)
      ELSE IF status = 410
        THEN Push(<<"Model", modelId, "is no longer available", "410", "Gone">>)
      ELSE IF status = 404
        THEN Push(<<"Model", modelId, "not found", "404",
                    "may not be available on Inference API">>)
      ELSE IF IsAuthStatus(status)
        THEN Throw(OrElse(errorData.error, OrElse(errorData.message,
                     <<"Authentication", "failed. Please check your VITE_HF_TOKEN.">>)))
      ELSE Push(<<modelId, StatusText(status)>> \o
                OrElse(errorData.error, OrElse(errorData.message, OrElse(errorData.raw,
                     <<"API request failed with status", StatusText(status)>>))))

\* lines 164-179: a response that is ok
TranscriptionSuccess(modelId, response) ==
  LET result == response.result
      transcribedText == IF result.type = "object"
                           THEN (IF result.text # "" THEN result.text ELSE result.transcription)
                           ELSE ""
  IN  IF result.type = "invalid" THEN Throw(<<"Unexpected token in JSON">>)
      ELSE IF result.type = "string" THEN Return(result.str)
      ELSE IF transcribedText # "" THEN Return(transcribedText)
      ELSE Push(<<modelId, "No transcription text in response">>)

\* line 182: the errors the loop's catch throws again
IsNotModelSpecific(message) == Includes(message, "Authentication") \/ Includes(message, "loading")

\* lines 180-188: the catch of the loop body
CatchTranscriptionError(modelId, message) ==
  IF IsNotModelSpecific(message) THEN Throw(message) ELSE Push(<<modelId>> \o message)

\* lines 107-188: what the loop body does with the response of a candidate
HandleTranscriptionResponse(modelId, response) ==
  LET r == IF ResponseOk(response.status)
             THEN TranscriptionSuccess(modelId, response)
             ELSE TranscriptionFailure(modelId, response)
  IN  IF r.kind = "throw" THEN CatchTranscriptionError(modelId, r.message) ELSE r

\* mutant: exhaustion is never taken for deprecation
All410Never(errs) == FALSE

\* line 192
All410(errs) ==
  Len(errs) > 0 /\ \A i \in DOMAIN errs : Includes(errs[i], "410") \/ Includes(errs[i], "Gone")

RECURSIVE NumberedLines(_, _)
\* errors.map((e, i) => `  ${i + 1}. ${e}`).join('\n'), from entry i on
NumberedLines(errs, i) ==
  IF i > Len(errs) THEN <<>>
  ELSE <<"\n", StatusText(i)>> \o errs[i] \o NumberedLines(errs, i + 1)

\* lines 211-214
TranscriptionErrorSummary(errs) ==
  IF Len(errs) > 0
    THEN <<"All transcription models failed.", "Models tried:">> \o TranscriptionModels
         \o <<"Errors encountered:">> \o NumberedLines(errs, 1) \o <<"\n", "Possible causes:">>
    ELSE <<"All transcription models failed">>

(***************************************************************************)
(* translateAnimalSound: one candidate                                     *)
(***************************************************************************)
\* errorData.error?.message of a non-2xx completion response (<<>>: absent)
TranslationErrorMessages ==
  { <<>>, <<"The model", "does not exist">>, <<"upstream returned", "404">> }

\* the parsed body of a 2xx completion response: an object (its
\* choices[0].message.content, "" when missing or empty), null, or not JSON;
\* one content is also a mock translation of an animal
TranslationResults ==
  { [type |-> "object", content |-> "Feed me now!"],
    [type |-> "object", content |-> "I'm hungry! Where's my food?"],
    [type |-> "object", content |-> ""],
    [type |-> "null", content |-> ""],
    [type |-> "invalid", content |-> ""] }

TranslationErrorStatuses == {401, 404, 410, 500, 503}

TranslationResponses ==
  [status : TranslationErrorStatuses, errorMessage : TranslationErrorMessages,
   result : {[type |-> "none", content |-> ""]}]
  \cup [status : {200}, errorMessage : {<<>>}, result : TranslationResults]

\* Math.random(), in thousandths
RandomSamples == {0, 500, 999}

\* line 299: Math.min(0.95, 0.7 + Math.random() * 0.25)
\* mutant: the confidence is not capped
ConfidenceUncapped(random) == 700 + (random * 300) \div 1000

Confidence(random) == Min(950, 700 + (random * 250) \div 1000)

\* line 296
GenericTranslation(animalName) ==
  "The " \o animalName \o
  " seems to be communicating something, but I couldn't interpret it clearly."

IsModelNotFound(message) == Includes(message, "does not exist") \/ Includes(message, "404")

\* lines 306-315: the catch of the loop body
CatchTranslationError(modelId, message) ==
  IF IsModelNotFound(message) THEN Push(<<modelId>> \o message) ELSE Throw(message)

\* lines 279-292: a response that is not ok
TranslationFailure(modelId, response) ==
  LET errorMsg == OrElse(response.errorMessage,
                         <<"API request failed with status", StatusText(response.status)>>)
  IN  IF response.status = 404 \/ Includes(errorMsg, "does not exist")
        THEN Push(<<modelId>> \o errorMsg)
        ELSE Throw(errorMsg)

\* mutant: a response without content is a failed candidate
TranslationSuccessStrict(animalName, response) ==
  IF response.result.type = "object" /\ response.result.content # ""
    THEN Return(response.result.content)
    ELSE Push(<<"No completion text in response", "404">>)

\* lines 294-305: a response that is ok; the value returned is the text, the
\* confidence is drawn by the caller of this operator
TranslationSuccess(animalName, response) ==
  LET result == response.result
  IN  IF result.type = "invalid" THEN Throw(<<"Unexpected token in JSON">>)
      ELSE IF result.type = "null"
        THEN Throw(<<"Cannot read properties of null (reading 'choices')">>)
      ELSE IF result.content # "" THEN Return(result.content)
      ELSE Return(GenericTranslation(animalName))

\* lines 279-315
HandleTranslationResponse(modelId, animalName, response) ==
  LET r == IF ResponseOk(response.status)
             THEN TranslationSuccess(animalName, response)
             ELSE TranslationFailure(modelId, response)
  IN  IF r.kind = "throw" THEN CatchTranslationError(modelId, r.message) ELSE r

\* lines 319-329
TranslationErrorSummary(errs, last) ==
  IF Len(errs) > 0
    THEN <<"All translation models failed.", "Models tried:">> \o TranslationModels
         \o <<"Errors:">> \o NumberedLines(errs, 1) \o <<"\n", "Please check:">>
    ELSE OrElse(last, <<"Translation failed: Unknown error">>)

(***************************************************************************)
(* Mock data                                                               *)
(***************************************************************************)
\* mutant: no default for a label without an entry
getMockTranscriptionNoDefault(animalName) ==
  IF animalName = "Dog" THEN "woof woof bark" ELSE Undefined

\* mutant: every label gets the default
getMockTranscriptionGeneric(animalName) == "animal sound"

\* lines 340-354
getMockTranscription(animalName) ==
  CASE animalName = "Dog" -> "woof woof bark"
    [] animalName = "Cat" -> "meow meow purr"
    [] animalName = "Bird" -> "tweet chirp tweet"
    [] animalName = "Cow" -> "moo moo"
    [] animalName = "Pig" -> "oink oink snort"
    [] animalName = "Rooster" -> "cock-a-doodle-doo"
    [] animalName = "Duck" -> "quack quack"
    [] animalName = "Sheep" -> "baa baa"
    [] animalName = "Horse" -> "neigh whinny"
    [] animalName = "Lion" -> "roar growl"
    [] OTHER -> "animal sound"

MockTranslations(animalName) ==
  CASE animalName = "Dog" ->
         << "I'm so excited! Can we play now? I've been waiting!",
            "Hey! I'm here and I want your attention!",
            "I love you! Give me belly rubs please!",
            "Something's happening! I need to protect you!" >>
    [] animalName = "Cat" ->
         << "I'm happy and content. Can I have some treats and scratches behind my ears?",
            "I'm hungry! Where's my food?",
            "I want attention right now. Pet me please!",
            "I'm feeling playful! Let's have some fun together!" >>
    [] animalName = "Bird" ->
         << "Good morning! I'm singing my beautiful song for you!",
            "Hey everyone! I'm here and I'm happy!",
            "Listen to my lovely voice! I'm calling to my friends!" >>
    [] animalName = "Cow" ->
         << "Hello! I'm calling out to my friends in the field!",
            "I'm content and happy here in the pasture!" >>
    [] animalName = "Pig" ->
         << "I'm so excited! Is it time for food?", "I'm happy and want to play!" >>
    [] animalName = "Rooster" ->
         << "Wake up! It's morning time!", "I'm announcing the new day!" >>
    [] animalName = "Duck" ->
         << "Hello! I'm here and I'm happy!", "Let's go swimming together!" >>
    [] animalName = "Sheep" ->
         << "I'm calling to my flock!", "I'm content and peaceful!" >>
    [] animalName = "Horse" ->
         << "I'm excited and ready to run!", "Hello friend! Let's go on an adventure!" >>
    [] animalName = "Lion" ->
         << "I'm the king! Hear my powerful voice!", "I'm calling to my pride!" >>
    [] OTHER ->
         << "I'm trying to tell you something important!",
            "I'm expressing my feelings to you!" >>

\* mutant: the animal's own sentences are ignored
getMockTranslationGeneric(animalName, random) == "I'm trying to tell you something important!"

\* line 414: options[Math.floor(Math.random() * options.length)]
getMockTranslation(animalName, random) ==
  LET options == MockTranslations(animalName)
  IN  options[((random * Len(options)) \div 1000) + 1]

\* line 455
MockConfidence == 600

\* the App's placeholder sentences
getPlaceholderTranslation(animalName) ==
  CASE animalName = "Dog" -> "Woof woof! I want to play!"
    [] animalName = "Cat" -> "Meow meow! Feed me now!"
    [] animalName = "Bird" -> "Tweet tweet! Beautiful day!"
    [] animalName = "Cow" -> "Moo moo! Time for grass!"
    [] animalName = "Pig" -> "Oink oink! I love mud!"
    [] animalName = "Rooster" -> "Cock-a-doodle-doo! Morning time!"
    [] animalName = "Duck" -> "Quack quack! Water is nice!"
    [] animalName = "Sheep" -> "Baa baa! I need a haircut!"
    [] animalName = "Horse" -> "Neigh neigh! Let's run!"
    [] animalName = "Lion" -> "Roar! I'm the king!"
    [] OTHER -> "Making animal sounds!"

\* the App's catch branch: confidence of the placeholder record
FallbackConfidence == 500

(***************************************************************************)
(* State                                                                   *)
(***************************************************************************)
VARIABLES
  HF_TOKEN,            \* the credential, "" when VITE_HF_TOKEN is not set
  selectedAnimal,      \* App state: the selected animal's name, or NoAnimal
  isRecording,         \* App state
  translation,         \* App state: the record displayed, or NoTranslation
  isTranslating,       \* App state
  error,               \* App state: the error message displayed, or NoError
  pc,                  \* where the run started by handleRecordingStop stands
  animalName,          \* processAnimalSound's argument
  modelIdx,            \* index of the candidate the running loop is at
  variant,             \* delivery variant the transcription candidate is at
  errors,              \* the errors array of the running function
  lastError,           \* the lastError of the running function (<<>>: null)
  tOutcome,            \* how transcribeAnimalSound ended
  transcribedText,     \* processAnimalSound's local
  isMockTranscription, \* processAnimalSound's local
  promptText,          \* translateAnimalSound's argument transcribedText
  lOutcome,            \* how translateAnimalSound ended
  pOutcome,            \* how processAnimalSound ended
  requests,            \* history: number of fetch calls of the run
  lastRequest,         \* history: the latest fetch call of the run
  answers,             \* history: the status answered to each candidate of the
                       \* stage in progress, in the order the candidates were left
  consoleWarn,         \* output: what the step just taken logged with console.warn
  inFlight,            \* the calls of handleRecordingStop awaiting processAnimalSound,
                       \* when several are followed at once: their number and animal
  runCount,            \* history: how many of these calls were made
  displayedRun,        \* history: the call whose record is displayed, 0 when none is
  streams,             \* VoiceRecorder: each microphone stream acquired so far
  streamRef,           \* VoiceRecorder: streamRef.current, 0 when null
  recorders,           \* VoiceRecorder: the state of each MediaRecorder created
  mediaRecorderRef,    \* VoiceRecorder: mediaRecorderRef.current, 0 when null
  onstopQueued,        \* VoiceRecorder: the recorders whose stop event is queued
  awaitingAccess       \* VoiceRecorder: calls of startRecording awaiting getUserMedia

vars ==
  << HF_TOKEN, selectedAnimal, isRecording, translation, isTranslating, error, pc,
     animalName, modelIdx, variant, errors, lastError, tOutcome, transcribedText,
     isMockTranscription, promptText, lOutcome, pOutcome, requests, lastRequest,
     answers, consoleWarn, inFlight, runCount, displayedRun, streams, streamRef,
     recorders, mediaRecorderRef, onstopQueued, awaitingAccess >>

asyncVars == << inFlight, runCount, displayedRun >>

recorderVars ==
  << streams, streamRef, recorders, mediaRecorderRef, onstopQueued, awaitingAccess >>

appVars == << selectedAnimal, isRecording, translation, isTranslating, error >>

NoAnimal == "null"

NoError == [isNull |-> TRUE, message |-> <<>>]

NoTranslation ==
  [isNull |-> TRUE, text |-> Undefined, confidence |-> 0, transcribedText |-> Undefined,
   isMockTranscription |-> FALSE, isMockTranslation |-> FALSE, isFallback |-> FALSE]

\* how an async function stands: pending, returned (isNull: it returned null),
\* or thrown with a message
Pending == [kind |-> "pending", isNull |-> FALSE, value |-> "", confidence |-> 0, message |-> <<>>]
Returned(v) == [Pending EXCEPT !.kind = "return", !.value = v]
ReturnedNull == [Pending EXCEPT !.kind = "return", !.isNull = TRUE]
ReturnedTranslation(t, c) == [Pending EXCEPT !.kind = "return", !.value = t, !.confidence = c]
Thrown(m) == [Pending EXCEPT !.kind = "throw", !.message = m]

NoRecord ==
  [kind |-> "pending", text |-> Undefined, confidence |-> 0, transcribedText |-> Undefined,
   isMockTranscription |-> FALSE, isMockTranslation |-> FALSE, message |-> <<>>]

NoRequest == [stage |-> "none", model |-> 0, variant |-> 0, outcome |-> "none"]

\* the answer recorded for a candidate whose every delivery raised
TransportFailure == 0

\* mutant: the token check is left out
TokenNeverMissing == FALSE

TokenMissing == HF_TOKEN = ""

Init ==
  /\ HF_TOKEN \in {"", "hf_token"}
  /\ selectedAnimal = NoAnimal
  /\ isRecording = FALSE
  /\ translation = NoTranslation
  /\ isTranslating = FALSE
  /\ error = NoError
  /\ pc = "idle"
  /\ animalName = NoAnimal
  /\ modelIdx = 0
  /\ variant = 0
  /\ errors = <<>>
  /\ lastError = <<>>
  /\ tOutcome = Pending
  /\ transcribedText = Undefined
  /\ isMockTranscription = FALSE
  /\ promptText = Undefined
  /\ lOutcome = Pending
  /\ pOutcome = NoRecord
  /\ requests = 0
  /\ lastRequest = NoRequest
  /\ answers = <<>>
  /\ consoleWarn = <<>>
  /\ inFlight = {}
  /\ runCount = 0
  /\ displayedRun = 0
  /\ streams = <<>>
  /\ streamRef = 0
  /\ recorders = <<>>
  /\ mediaRecorderRef = 0
  /\ onstopQueued = {}
  /\ awaitingAccess = 0

(***************************************************************************)
(* The App's handlers                                                      *)
(***************************************************************************)
runVars ==
  << pc, animalName, modelIdx, variant, errors, lastError, tOutcome, transcribedText,
     isMockTranscription, promptText, lOutcome, pOutcome, requests, lastRequest,
     answers >>

handleAnimalSelect ==
  \E animal \in Animals :
    /\ selectedAnimal' = animal
    /\ translation' = NoTranslation
    /\ consoleWarn' = <<>>
    /\ displayedRun' = 0
    /\ UNCHANGED << HF_TOKEN, isRecording, isTranslating, error, runVars, inFlight, runCount >>
    /\ UNCHANGED recorderVars

\* the recorder is rendered once an animal is selected and offers Start while
\* the App is not recording.  The model follows one run at a time: a recording
\* is started when no run is in flight.
handleRecordingStart ==
  /\ selectedAnimal # NoAnimal
  /\ ~isRecording
  /\ pc = "idle"
  /\ isRecording' = TRUE
  /\ translation' = NoTranslation
  /\ consoleWarn' = <<>>
  /\ displayedRun' = 0
  /\ UNCHANGED << HF_TOKEN, selectedAnimal, isTranslating, error, runVars, inFlight, runCount >>
  /\ UNCHANGED recorderVars

\* lines 26-33 of the App: up to the call of processAnimalSound
handleRecordingStop ==
  /\ isRecording
  /\ pc = "idle"
  /\ isRecording' = FALSE
  /\ isTranslating' = TRUE
  /\ error' = NoError
  /\ animalName' = selectedAnimal
  /\ pc' = "transcribe"
  /\ consoleWarn' = <<>>
  /\ UNCHANGED << HF_TOKEN, selectedAnimal, translation, modelIdx, variant, errors,
                  lastError, tOutcome, transcribedText, isMockTranscription, promptText,
                  lOutcome, pOutcome, requests, lastRequest, answers >>
  /\ UNCHANGED asyncVars
  /\ UNCHANGED recorderVars

(***************************************************************************)
(* transcribeAnimalSound                                                   *)
(***************************************************************************)
TokenRequiredMessage ==
  <<"Hugging Face token is required. Please set VITE_HF_TOKEN in your .env file.">>

\* the for-of loops advance by one candidate
\* mutant: the loop does not advance
SameModel(i) == i

NextModel(i) == i + 1

\* lines 17-42: the token check and the loop's set-up
transcribeStart ==
  /\ pc = "transcribe"
  /\ IF TokenMissing
       THEN /\ tOutcome' = Thrown(<<"Transcription failed:">> \o TokenRequiredMessage)
            /\ pc' = "transcribed"
            /\ UNCHANGED << modelIdx, variant >>
       ELSE /\ modelIdx' = 1
            /\ variant' = 1
            /\ pc' = "transcribe_fetch"
            /\ UNCHANGED tOutcome
  /\ errors' = <<>>
  /\ requests' = 0
  /\ lastRequest' = NoRequest
  /\ answers' = <<>>
  /\ consoleWarn' = <<>>
  /\ UNCHANGED << HF_TOKEN, appVars, animalName, lastError, transcribedText,
                  isMockTranscription, promptText, lOutcome, pOutcome >>
  /\ UNCHANGED asyncVars
  /\ UNCHANGED recorderVars

\* mutant: the loop is left with no error recorded
TranscriptionExhaustedNoErrors(errs) ==
  Thrown(<<"Transcription failed:">> \o TranscriptionErrorSummary(<<>>))

\* lines 191-219: the loop is over, every candidate failed
TranscriptionExhausted(errs) ==
  IF All410(errs)
    THEN ReturnedNull
    ELSE Thrown(<<"Transcription failed:">> \o TranscriptionErrorSummary(errs))

\* one fetch call of the run (lines 54, 66, 85, 93 and 253) and how its await
\* ended: it obtained a response, it raised, or it has not settled
Request(stage, model, deliveryVariant, outcome) ==
  [stage |-> stage, model |-> model, variant |-> deliveryVariant, outcome |-> outcome]

\* mutant: the fetch is not awaited
NotSuspended(stage) ==
  IF stage = "transcription" THEN "transcribe_fetch" ELSE "translate_fetch"

\* every fetch is awaited (lines 54, 66, 85, 93 and 253): the function stays at
\* the call until the request settles
Suspended(stage) ==
  IF stage = "transcription" THEN "transcribe_await" ELSE "translate_await"

\* what the loop of transcribeAnimalSound does with the decision on a candidate:
\* continue with the next one (lines 132, 141, 149, 161, 179, 187) and, past
\* the last one, leave the loop (lines 191-219); return (lines 168, 172); or
\* throw through the outer catch (lines 183, 216-219)
TranscriptionStep(decision, answer) ==
  /\ answers' = Append(answers, answer)
  /\ IF decision.kind = "push" /\ NextModel(modelIdx) <= Len(TranscriptionModels)
       THEN /\ errors' = Append(errors, decision.message)
            /\ modelIdx' = NextModel(modelIdx)
            /\ variant' = 1
            /\ UNCHANGED << pc, tOutcome >>
       ELSE /\ tOutcome' = IF decision.kind = "push"
                             THEN TranscriptionExhausted(Append(errors, decision.message))
                           ELSE IF decision.kind = "return"
                             THEN Returned(decision.value)
                             ELSE Thrown(<<"Transcription failed:">> \o decision.message)
            /\ pc' = "transcribed"
            /\ errors' = <<>>
            /\ modelIdx' = 0
            /\ variant' = 0

\* lines 52-105 and 180-188: the fetch of the current delivery variant raises;
\* the next variant is tried, and after the last one the loop's catch decides
transcribeFetchRaises ==
  /\ pc = "transcribe_fetch"
  /\ \E message \in TransportMessages :
       /\ requests' = requests + 1
       /\ lastRequest' = Request("transcription", modelIdx, variant, "raised")
       /\ IF variant < LastVariant
            THEN /\ variant' = variant + 1
                 /\ UNCHANGED << pc, modelIdx, errors, tOutcome, answers >>
            ELSE TranscriptionStep(
                   CatchTranscriptionError(TranscriptionModels[modelIdx], message),
                   TransportFailure)
  /\ consoleWarn' = <<>>
  /\ UNCHANGED << HF_TOKEN, appVars, animalName, lastError, transcribedText,
                  isMockTranscription, promptText, lOutcome, pOutcome >>
  /\ UNCHANGED asyncVars
  /\ UNCHANGED recorderVars

\* lines 52-188: the fetch of the current delivery variant obtains a response
transcribeFetchAnswers ==
  /\ pc = "transcribe_fetch"
  /\ \E response \in TranscriptionResponses :
       /\ requests' = requests + 1
       /\ lastRequest' = Request("transcription", modelIdx, variant, "responded")
       /\ TranscriptionStep(
            HandleTranscriptionResponse(TranscriptionModels[modelIdx], response),
            response.status)
  /\ consoleWarn' = <<>>
  /\ UNCHANGED << HF_TOKEN, appVars, animalName, lastError, transcribedText,
                  isMockTranscription, promptText, lOutcome, pOutcome >>
  /\ UNCHANGED asyncVars
  /\ UNCHANGED recorderVars

\* lines 52-105: the fetch of the current delivery variant never settles; no
\* timer or abort signal is attached to the request, so the await does not
\* resume
transcribeFetchPends ==
  /\ pc = "transcribe_fetch"
  /\ requests' = requests + 1
  /\ lastRequest' = Request("transcription", modelIdx, variant, "pending")
  /\ pc' = Suspended("transcription")
  /\ consoleWarn' = <<>>
  /\ UNCHANGED << HF_TOKEN, appVars, animalName, modelIdx, variant, errors, lastError,
                  tOutcome, transcribedText, isMockTranscription, promptText, lOutcome,
                  pOutcome, answers >>
  /\ UNCHANGED asyncVars
  /\ UNCHANGED recorderVars

(***************************************************************************)
(* processAnimalSound, step 1                                              *)
(***************************************************************************)
\* the await of transcribeAnimalSound has taken the promise's outcome
Consumed == [Pending EXCEPT !.kind = "consumed"]

\* mutant: only null is taken for a missing transcript
IsFalsyNullOnly(outcome) == outcome.isNull

\* line 432: !transcribedText
IsFalsy(outcome) == outcome.isNull \/ outcome.value = ""

\* lines 429-441
processTranscription ==
  /\ pc = "transcribed"
  /\ IF tOutcome.kind = "return" /\ ~IsFalsy(tOutcome)
       THEN /\ transcribedText' = tOutcome.value
            /\ isMockTranscription' = FALSE
            /\ consoleWarn' = <<>>
       ELSE /\ transcribedText' = getMockTranscription(animalName)
            /\ isMockTranscription' = TRUE
            /\ consoleWarn' = IF tOutcome.kind = "throw"
                                THEN <<"Transcription API failed, using mock transcription:">>
                                     \o tOutcome.message
                                ELSE <<>>
  /\ tOutcome' = Consumed
  /\ pc' = "translate"
  /\ UNCHANGED << HF_TOKEN, appVars, animalName, modelIdx, variant, errors, lastError,
                  promptText, lOutcome, pOutcome, requests, lastRequest, answers >>
  /\ UNCHANGED asyncVars
  /\ UNCHANGED recorderVars

(***************************************************************************)
(* translateAnimalSound                                                    *)
(***************************************************************************)
\* lines 228-248
translateStart ==
  /\ pc = "translate"
  /\ promptText' = transcribedText
  /\ IF TokenMissing
       THEN /\ lOutcome' = Thrown(<<"Translation failed:">> \o TokenRequiredMessage)
            /\ pc' = "translated"
            /\ UNCHANGED modelIdx
       ELSE /\ modelIdx' = 1
            /\ pc' = "translate_fetch"
            /\ UNCHANGED lOutcome
  /\ errors' = <<>>
  /\ lastError' = <<>>
  /\ requests' = 0
  /\ lastRequest' = NoRequest
  /\ answers' = <<>>
  /\ consoleWarn' = <<>>
  /\ UNCHANGED << HF_TOKEN, appVars, animalName, variant, tOutcome, transcribedText,
                  isMockTranscription, pOutcome >>
  /\ UNCHANGED asyncVars
  /\ UNCHANGED recorderVars

\* mutant: exhaustion returns a mock translation
TranslationExhaustedReturnsMock(errs, last) ==
  ReturnedTranslation("I'm hungry! Where's my food?", MockConfidence)

\* lines 318-333: the loop is over, every candidate failed
TranslationExhausted(errs, last) ==
  Thrown(<<"Translation failed:">> \o TranslationErrorSummary(errs, last))

\* mutant: the loop of translateAnimalSound hands the run back to transcription
TranslationStepRestarts(decision, answer, random) ==
  /\ answers' = Append(answers, answer)
  /\ errors' = <<>>
  /\ lastError' = <<>>
  /\ modelIdx' = 0
  /\ lOutcome' = Pending
  /\ pc' = "transcribe"

\* what the loop of translateAnimalSound does with the decision on a candidate:
\* continue (lines 287, 311) and, past the last one, leave the loop (lines
\* 318-333); return (lines 301-305); or throw through the outer catch (lines
\* 314, 330-333)
TranslationStep(decision, answer, random) ==
  /\ answers' = Append(answers, answer)
  /\ IF decision.kind = "push" /\ NextModel(modelIdx) <= Len(TranslationModels)
       THEN /\ errors' = Append(errors, decision.message)
            /\ lastError' = Tail(decision.message)
            /\ modelIdx' = NextModel(modelIdx)
            /\ UNCHANGED << pc, lOutcome >>
       ELSE /\ lOutcome' = IF decision.kind = "push"
                             THEN TranslationExhausted(Append(errors, decision.message),
                                                       Tail(decision.message))
                           ELSE IF decision.kind = "return"
                             THEN ReturnedTranslation(decision.value, Confidence(random))
                             ELSE Thrown(<<"Translation failed:">> \o decision.message)
            /\ pc' = "translated"
            /\ errors' = <<>>
            /\ lastError' = <<>>
            /\ modelIdx' = 0

\* lines 250-277 and 306-315: the fetch raises
translateFetchRaises ==
  /\ pc = "translate_fetch"
  /\ \E message \in TransportMessages :
       /\ requests' = requests + 1
       /\ lastRequest' = Request("completion", modelIdx, 1, "raised")
       /\ TranslationStep(CatchTranslationError(TranslationModels[modelIdx], message),
                          TransportFailure, 0)
  /\ consoleWarn' = <<>>
  /\ UNCHANGED << HF_TOKEN, appVars, animalName, variant, tOutcome, transcribedText,
                  isMockTranscription, promptText, pOutcome >>
  /\ UNCHANGED asyncVars
  /\ UNCHANGED recorderVars

\* lines 250-315: the fetch obtains a response
translateFetchAnswers ==
  /\ pc = "translate_fetch"
  /\ \E response \in TranslationResponses, random \in RandomSamples :
       /\ requests' = requests + 1
       /\ lastRequest' = Request("completion", modelIdx, 1, "responded")
       /\ TranslationStep(
            HandleTranslationResponse(TranslationModels[modelIdx], animalName, response),
            response.status, random)
  /\ consoleWarn' = <<>>
  /\ UNCHANGED << HF_TOKEN, appVars, animalName, variant, tOutcome, transcribedText,
                  isMockTranscription, promptText, pOutcome >>
  /\ UNCHANGED asyncVars
  /\ UNCHANGED recorderVars

\* lines 253-277: the fetch never settles; no timer or abort signal is attached
\* to the request, so the await does not resume
translateFetchPends ==
  /\ pc = "translate_fetch"
  /\ requests' = requests + 1
  /\ lastRequest' = Request("completion", modelIdx, 1, "pending")
  /\ pc' = Suspended("completion")
  /\ consoleWarn' = <<>>
  /\ UNCHANGED << HF_TOKEN, appVars, animalName, modelIdx, variant, errors, lastError,
                  tOutcome, transcribedText, isMockTranscription, promptText, lOutcome,
                  pOutcome, answers >>
  /\ UNCHANGED asyncVars
  /\ UNCHANGED recorderVars

(***************************************************************************)
(* processAnimalSound, step 2, and the App's continuation                  *)
(***************************************************************************)
\* mutant: the flags are inferred from the content
AssembleFlagsFromContent(text, confidence, isMockTranslation) ==
  [kind |-> "return", text |-> text, confidence |-> confidence,
   transcribedText |-> transcribedText,
   isMockTranscription |-> (transcribedText = getMockTranscription(animalName)),
   isMockTranslation |-> (text \in { MockTranslations(animalName)[i] :
                                       i \in DOMAIN MockTranslations(animalName) }),
   message |-> <<>>]

\* mutant: the record does not carry the transcript
AssembleWithoutTranscript(text, confidence, isMockTranslation) ==
  [kind |-> "return", text |-> text, confidence |-> confidence,
   transcribedText |-> Undefined, isMockTranscription |-> isMockTranscription,
   isMockTranslation |-> isMockTranslation, message |-> <<>>]

\* lines 461-466: the record returned
Assemble(text, confidence, isMockTranslation) ==
  [kind |-> "return", text |-> text, confidence |-> confidence,
   transcribedText |-> transcribedText, isMockTranscription |-> isMockTranscription,
   isMockTranslation |-> isMockTranslation, message |-> <<>>]

\* mutant: a failure of translateAnimalSound is thrown on to the caller
processTranslationRethrows ==
  /\ pc = "translated"
  /\ pOutcome' = IF lOutcome.kind = "return"
                   THEN Assemble(lOutcome.value, lOutcome.confidence, FALSE)
                   ELSE [NoRecord EXCEPT !.kind = "throw", !.message = lOutcome.message]
  /\ consoleWarn' = <<>>
  /\ lOutcome' = Consumed
  /\ pc' = "resolve"
  /\ UNCHANGED << HF_TOKEN, appVars, animalName, modelIdx, variant, errors, lastError,
                  tOutcome, transcribedText, isMockTranscription, promptText,
                  requests, lastRequest, answers >>
  /\ UNCHANGED asyncVars
  /\ UNCHANGED recorderVars

\* lines 443-471
processTranslation ==
  /\ pc = "translated"
  /\ \E random \in RandomSamples :
       IF lOutcome.kind = "return"
         THEN /\ pOutcome' = Assemble(lOutcome.value, lOutcome.confidence, FALSE)
              /\ consoleWarn' = <<>>
         ELSE /\ pOutcome' = Assemble(getMockTranslation(animalName, random),
                                      MockConfidence, TRUE)
              /\ consoleWarn' = <<"Translation API failed, using mock translation:">>
                                \o lOutcome.message
  /\ lOutcome' = Consumed
  /\ pc' = "resolve"
  /\ UNCHANGED << HF_TOKEN, appVars, animalName, modelIdx, variant, errors, lastError,
                  tOutcome, transcribedText, isMockTranscription, promptText,
                  requests, lastRequest, answers >>
  /\ UNCHANGED asyncVars
  /\ UNCHANGED recorderVars

\* mutant: nothing is displayed
DisplayedNothing(result) == NoTranslation

\* lines 35-41 of the App: the record set on success
DisplayedRecord(result) ==
  [isNull |-> FALSE, text |-> result.text, confidence |-> result.confidence,
   transcribedText |-> result.transcribedText,
   isMockTranscription |-> result.isMockTranscription,
   isMockTranslation |-> result.isMockTranslation, isFallback |-> FALSE]

\* lines 47-51 of the App: the placeholder set in the catch branch
FallbackRecord(name) ==
  [isNull |-> FALSE,
   text |-> "[Fallback] The " \o name \o " said: \"" \o getPlaceholderTranslation(name) \o "\"",
   confidence |-> FallbackConfidence, transcribedText |-> Undefined,
   isMockTranscription |-> FALSE, isMockTranslation |-> FALSE, isFallback |-> TRUE]

\* lines 33-54 of the App: the await of processAnimalSound resumes; the run's
\* frames are gone afterwards
handleRecordingStopResume ==
  /\ pc = "resolve"
  /\ IF pOutcome.kind = "return"
       THEN /\ translation' = DisplayedRecord(pOutcome)
            /\ UNCHANGED error
       ELSE /\ error' = [isNull |-> FALSE,
                         message |-> OrElse(pOutcome.message,
                           <<"Failed to translate animal sound. Please check your API token and try again.">>)]
            /\ translation' = FallbackRecord(animalName)
  /\ isTranslating' = FALSE
  /\ pc' = "idle"
  /\ animalName' = NoAnimal
  /\ modelIdx' = 0
  /\ variant' = 0
  /\ errors' = <<>>
  /\ lastError' = <<>>
  /\ tOutcome' = Pending
  /\ transcribedText' = Undefined
  /\ isMockTranscription' = FALSE
  /\ promptText' = Undefined
  /\ lOutcome' = Pending
  /\ pOutcome' = NoRecord
  /\ requests' = 0
  /\ lastRequest' = NoRequest
  /\ answers' = <<>>
  /\ consoleWarn' = <<>>
  /\ UNCHANGED << HF_TOKEN, selectedAnimal, isRecording >>
  /\ UNCHANGED asyncVars
  /\ UNCHANGED recorderVars

Next ==
  \/ handleAnimalSelect
  \/ handleRecordingStart
  \/ handleRecordingStop
  \/ transcribeStart
  \/ transcribeFetchRaises
  \/ transcribeFetchAnswers
  \/ transcribeFetchPends
  \/ processTranscription
  \/ translateStart
  \/ translateFetchRaises
  \/ translateFetchAnswers
  \/ translateFetchPends
  \/ processTranslation
  \/ handleRecordingStopResume

Spec == Init /\ [][Next]_vars

(***************************************************************************)
(* Properties                                                              *)
(***************************************************************************)
\* the answers recorded are those of transcribeAnimalSound
TranscriptionAnswers ==
  pc \in {"transcribe_fetch", "transcribe_await", "transcribed", "translate"}

\* a fetch is issued by the step
RequestIssued == requests' = requests + 1

\* C1: with the credential missing, processAnimalSound issues no request and
\* raises instead of returning a record, and the record the App displays after
\* the run is the placeholder of its catch branch (isFallback, confidence 0.5).
C1_MissingCredentialRaises ==
  HF_TOKEN = "" =>
    /\ requests = 0
    /\ pOutcome.kind # "return"
    /\ ~translation.isNull =>
         translation.isFallback /\ translation.confidence = FallbackConfidence

\* C2: when transcribeAnimalSound ended on a candidate answering 401 or 403,
\* processAnimalSound does not go on with the mock transcript.
C2_UnauthorizedNotMasked ==
  ( /\ pc = "translate"
    /\ answers # <<>>
    /\ IsAuthStatus(answers[Len(answers)]) )
  => ~isMockTranscription

\* C3: a transcription candidate answering 401 or 403 is the last candidate
\* attempted, and transcribeAnimalSound fails.
C3_UnauthorizedStopsLoop ==
  TranscriptionAnswers =>
    \A i \in DOMAIN answers :
      IsAuthStatus(answers[i]) =>
        /\ i = Len(answers)
        /\ pc \notin {"transcribe_fetch", "transcribe_await"}
        /\ pc = "transcribed" => tOutcome.kind = "throw"

\* C4: with the credential missing, transcribeAnimalSound and
\* translateAnimalSound each fail, and no request is ever issued.
C4_NoRequestWithoutCredential ==
  HF_TOKEN = "" =>
    /\ requests = 0
    /\ lastRequest = NoRequest
    /\ pc = "transcribed" => tOutcome = Thrown(<<"Transcription failed:">> \o TokenRequiredMessage)
    /\ pc = "translated" => lOutcome = Thrown(<<"Translation failed:">> \o TokenRequiredMessage)

C4_Witness == HF_TOKEN = "" /\ pc = "resolve"

AllCandidatesAnswered(statuses) ==
  /\ TranscriptionAnswers
  /\ Len(answers) = Len(TranscriptionModels)
  /\ \A i \in DOMAIN answers : answers[i] \in statuses

\* the locals of processAnimalSound are in scope and set
AfterTranscription ==
  pc \in {"translate", "translate_fetch", "translate_await", "translated"}

\* C6: when every transcription candidate answers 410, transcribeAnimalSound
\* returns null; processAnimalSound takes the mock transcript of the animal
\* with isMockTranscription = true and logs no failure, keeps both until it
\* returns, returns a record carrying them, and the App displays that record
\* and sets no error.
C6_AllGoneDegradesSilently ==
  [][ /\ (pc = "transcribed" /\ pc' = "translate" /\ AllCandidatesAnswered({410})) =>
           /\ tOutcome = ReturnedNull
           /\ transcribedText' = getMockTranscription(animalName)
           /\ isMockTranscription'
           /\ consoleWarn' = <<>>
      /\ AfterTranscription =>
           /\ transcribedText' = transcribedText
           /\ isMockTranscription' = isMockTranscription
      /\ pc' = "resolve" =>
           /\ pOutcome'.kind = "return"
           /\ pOutcome'.transcribedText = transcribedText
           /\ pOutcome'.isMockTranscription = isMockTranscription
      /\ (pc = "resolve" /\ pc' = "idle") =>
           /\ error' = NoError
           /\ translation'.transcribedText = pOutcome.transcribedText
           /\ translation'.isMockTranscription = pOutcome.isMockTranscription
    ]_vars

C6_Witness ==
  /\ pc = "translate"
  /\ AllCandidatesAnswered({410})
  /\ isMockTranscription
  /\ transcribedText = getMockTranscription(animalName)

\* the statuses of a candidate that failed without an authentication failure
RecoverableStatuses == {404, 410, 500, 503}

\* the entries of the numbered list of a logged error summary
DiagnosticEntries(log) ==
  Cardinality({ k \in 1..(Len(log) - 1) :
                  /\ log[k] = "\n"
                  /\ \E i \in 1..Len(TranscriptionModels) : log[k + 1] = StatusText(i) })

\* C7: when every transcription candidate failed with a status other than 401
\* and 403, and not all of them with 410, processAnimalSound takes the mock
\* transcript with isMockTranscription = true and the warning it logs lists
\* one entry for each candidate.
C7_MixedFailuresAreLogged ==
  [][ ( /\ pc = "transcribed"
        /\ pc' = "translate"
        /\ AllCandidatesAnswered(RecoverableStatuses)
        /\ \E i \in DOMAIN answers : answers[i] # 410 )
      => /\ isMockTranscription'
         /\ transcribedText' = getMockTranscription(animalName)
         /\ DiagnosticEntries(consoleWarn') = Len(TranscriptionModels)
    ]_vars

\* the candidate list of the stage a request belongs to
ModelsOf(stage) == IF stage = "transcription" THEN TranscriptionModels ELSE TranslationModels

\* C8: in both loops a request goes to the candidate that follows the
\* candidates already decided, in list order; a candidate is never returned
\* to (further requests to it are its next delivery variants); and no request
\* is issued once the function has an outcome, so none after a success.
C8_CandidatesInOrder ==
  [][ /\ RequestIssued =>
           /\ pc \in {"transcribe_fetch", "translate_fetch"}
           /\ lastRequest'.model = Len(answers) + 1
           /\ lastRequest'.model \in DOMAIN ModelsOf(lastRequest'.stage)
           /\ lastRequest # NoRequest =>
                /\ lastRequest'.stage = lastRequest.stage
                /\ \/ lastRequest'.model = lastRequest.model + 1
                   \/ /\ lastRequest'.model = lastRequest.model
                      /\ lastRequest'.variant = lastRequest.variant + 1
           /\ lastRequest'.stage = "transcription" => tOutcome = Pending
           /\ lastRequest'.stage = "completion" => lOutcome = Pending
      /\ (tOutcome.kind = "return" \/ lOutcome.kind = "return") => ~RequestIssued
    ]_vars

C8_Witness ==
  /\ pc = "translated"
  /\ lOutcome.kind = "return"
  /\ Len(answers) = 2
  /\ lastRequest.model = 2

\* C9: a completion request is issued only after processAnimalSound has taken
\* the outcome of transcribeAnimalSound and set its transcript, and the
\* record returned carries the transcript that was passed to
\* translateAnimalSound.
C9_TranscriptionPrecedesTranslation ==
  /\ lastRequest.stage = "completion" =>
       /\ tOutcome = Consumed
       /\ transcribedText # Undefined
       /\ promptText = transcribedText
  /\ pOutcome.kind = "return" =>
       /\ promptText # Undefined
       /\ pOutcome.transcribedText = promptText

C9_Witness ==
  /\ pc = "resolve"
  /\ lastRequest.stage = "completion"
  /\ pOutcome.kind = "return"
  /\ ~pOutcome.isMockTranscription

\* C10: a record returned by processAnimalSound has a confidence between 0.70
\* and 0.95 when isMockTranslation is false, and of 0.6 when it is true
\* (confidences are in thousandths).
C10_ConfidenceRange ==
  pOutcome.kind = "return" =>
    IF pOutcome.isMockTranslation
      THEN pOutcome.confidence = 600
      ELSE 700 <= pOutcome.confidence /\ pOutcome.confidence <= 950

C10_Witness ==
  /\ pc = "resolve"
  /\ pOutcome.kind = "return"
  /\ ~pOutcome.isMockTranslation
  /\ pOutcome.confidence > 900

\* the configured mock translations of an animal, as a set
MockTranslationSet(name) ==
  { MockTranslations(name)[i] : i \in DOMAIN MockTranslations(name) }

\* translateAnimalSound ended after every candidate answered 404
AllCompletionsNotFound ==
  /\ Len(answers) = Len(TranslationModels)
  /\ \A i \in DOMAIN answers : answers[i] = 404

\* C11: processAnimalSound always ends by returning a record, and a record it
\* returns has a text that is not empty, a transcribedText that is not empty
\* and a confidence between 0 and 1 (in thousandths).
C11_RecordIsPopulated ==
  /\ pc = "resolve" => pOutcome.kind = "return"
  /\ pOutcome.kind = "return" =>
       /\ pOutcome.text \notin {"", Undefined}
       /\ pOutcome.transcribedText \notin {"", Undefined}
       /\ pOutcome.confidence \in 0..1000

C11_Witness ==
  /\ pc = "resolve"
  /\ pOutcome.kind = "return"
  /\ pOutcome.isMockTranscription
  /\ pOutcome.text = GenericTranslation(animalName)

\* C12: processAnimalSound sets isMockTranscription to false exactly when it
\* keeps the non-empty text transcribeAnimalSound returned, and to true exactly
\* when it takes the mock transcript; it sets isMockTranslation to false exactly
\* when the text is the one translateAnimalSound returned, and to true exactly
\* when it takes a mock translation; the record carries these flags, also when
\* a remote text equals a mock text.
C12_FlagsFollowProvenance ==
  [][ /\ (pc = "transcribed" /\ pc' = "translate") =>
           IF tOutcome.kind = "return" /\ ~tOutcome.isNull /\ tOutcome.value # ""
             THEN transcribedText' = tOutcome.value /\ ~isMockTranscription'
             ELSE transcribedText' = getMockTranscription(animalName) /\ isMockTranscription'
      /\ (pc = "translated" /\ pc' = "resolve") =>
           /\ pOutcome'.transcribedText = transcribedText
           /\ pOutcome'.isMockTranscription = isMockTranscription
           /\ IF lOutcome.kind = "return"
                THEN pOutcome'.text = lOutcome.value /\ ~pOutcome'.isMockTranslation
                ELSE /\ pOutcome'.text \in MockTranslationSet(animalName)
                     /\ pOutcome'.isMockTranslation
    ]_vars

C12_Witness ==
  /\ pc = "resolve"
  /\ pOutcome.transcribedText = getMockTranscription(animalName)
  /\ ~pOutcome.isMockTranscription
  /\ pOutcome.text \in MockTranslationSet(animalName)
  /\ ~pOutcome.isMockTranslation

C14_TranslationFailsHard ==
  pc = "translated" =>
    /\ lOutcome.kind \in {"return", "throw"}
    /\ lOutcome.kind = "return" =>
         /\ ~lOutcome.isNull
         /\ answers # <<>>
         /\ ResponseOk(answers[Len(answers)])
    /\ (\A i \in DOMAIN answers : ~ResponseOk(answers[i])) => lOutcome.kind = "throw"

C14_Witness ==
  /\ pc = "translated"
  /\ AllCompletionsNotFound
  /\ lOutcome.kind = "throw"

\* C15: when the run started by handleRecordingStop completes, the App holds
\* a translation that is not null and whose text is not empty, and
\* isTranslating is false.
C15_RunEndsWithRecord ==
  [][ (pc = "resolve" /\ pc' = "idle") =>
        /\ ~translation'.isNull
        /\ translation'.text \notin {"", Undefined}
        /\ ~isTranslating'
    ]_vars

C15_Witness ==
  /\ pc = "idle"
  /\ ~isTranslating
  /\ ~translation.isNull
  /\ translation.isMockTranscription
  /\ translation.isMockTranslation

\* the 2xx completion responses whose body is an object, with and without a
\* usable choices[0].message.content
UsableCompletions ==
  { r \in TranslationResponses :
      ResponseOk(r.status) /\ r.result.type = "object" /\ r.result.content # "" }

UnusableCompletions ==
  { r \in TranslationResponses :
      ResponseOk(r.status) /\ r.result.type = "object" /\ r.result.content = "" }

\* the confidence of a remote translation is between 0.70 and 0.95
RemoteConfidence(c) == 700 <= c /\ c <= 950

\* C16: with the credential present and the animal Cat, when every
\* transcription candidate answered 410 processAnimalSound takes the transcript
\* 'meow meow purr' with isMockTranscription = true and keeps both until it
\* returns; a first completion candidate answering with a content c makes
\* translateAnimalSound return c after that one request, with a confidence
\* between 0.70 and 0.95; and the record returned carries c, the transcript
\* and the flag, with isMockTranslation = false.
C16_ScenarioA ==
  [][ (animalName = "Cat" /\ HF_TOKEN # "") =>
        /\ (pc = "transcribed" /\ pc' = "translate" /\ AllCandidatesAnswered({410})) =>
             /\ transcribedText' = "meow meow purr"
             /\ isMockTranscription'
        /\ AfterTranscription =>
             UNCHANGED << animalName, transcribedText, isMockTranscription >>
        /\ (pc = "translate_fetch" /\ answers = <<>>) =>
             /\ \A r \in UsableCompletions :
                  HandleTranslationResponse(TranslationModels[1], animalName, r)
                    = Return(r.result.content)
             /\ lOutcome'.kind = "return" =>
                  /\ pc' = "translated"
                  /\ requests' = 1
                  /\ answers' = <<200>>
                  /\ RemoteConfidence(lOutcome'.confidence)
        /\ (pc = "translated" /\ pc' = "resolve" /\ lOutcome.kind = "return") =>
             /\ pOutcome'.text = lOutcome.value
             /\ pOutcome'.confidence = lOutcome.confidence
             /\ pOutcome'.transcribedText = transcribedText
             /\ pOutcome'.isMockTranscription = isMockTranscription
             /\ ~pOutcome'.isMockTranslation
             /\ UNCHANGED << requests, answers >>
    ]_vars

C16_Witness ==
  /\ pc = "resolve"
  /\ animalName = "Cat"
  /\ answers = <<200>>
  /\ requests = 1
  /\ pOutcome.text = "Feed me now!"
  /\ pOutcome.transcribedText = "meow meow purr"
  /\ pOutcome.isMockTranscription
  /\ ~pOutcome.isMockTranslation
  /\ RemoteConfidence(pOutcome.confidence)

KnownAnimals ==
  {"Dog", "Cat", "Bird", "Cow", "Pig", "Rooster", "Duck", "Sheep", "Horse", "Lion"}

\* the labels a caller of processAnimalSound passes: the known names, a name
\* without an entry, the empty string, and undefined (selectedAnimal?.name)
Labels == KnownAnimals \cup {"Parrot", "", Undefined}

MockInit == Init /\ HF_TOKEN = ""

\* lines 423-428: a caller passes any label to processAnimalSound and awaits it
\* as handleRecordingStop does
processAnimalSoundCall ==
  /\ pc = "idle"
  /\ \E label \in Labels : animalName' = label
  /\ pc' = "transcribe"
  /\ isTranslating' = TRUE
  /\ consoleWarn' = <<>>
  /\ UNCHANGED << HF_TOKEN, selectedAnimal, isRecording, translation, error, modelIdx,
                  variant, errors, lastError, tOutcome, transcribedText,
                  isMockTranscription, promptText, lOutcome, pOutcome, requests,
                  lastRequest, answers >>
  /\ UNCHANGED asyncVars
  /\ UNCHANGED recorderVars

MockNext ==
  \/ processAnimalSoundCall
  \/ transcribeStart
  \/ processTranscription
  \/ translateStart
  \/ processTranslation
  \/ handleRecordingStopResume

MockSpec == MockInit /\ [][MockNext]_vars

\* Math.random() in thousandths, every value
AllRandoms == 0..999

RunStep ==
  \/ transcribeStart
  \/ transcribeFetchRaises
  \/ transcribeFetchAnswers
  \/ transcribeFetchPends
  \/ processTranscription
  \/ translateStart
  \/ translateFetchRaises
  \/ translateFetchAnswers
  \/ translateFetchPends
  \/ processTranslation
  \/ handleRecordingStopResume

\* a request was sent and has not settled
AwaitingResponse == pc \in {"transcribe_await", "translate_await"}

\* C20: a run whose request does not settle is not blocked: a step of the run
\* (the expiry of the attempt, after which the next candidate is tried) can
\* still be taken.
C20_AttemptExpires == AwaitingResponse => ENABLED RunStep

(***************************************************************************)
(* The App with several calls of handleRecordingStop in flight             *)
(***************************************************************************)
\* the calls of handleRecordingStop a behaviour makes
MaxRuns == 2

\* the transcripts a run of processAnimalSound can end with (lines 429-441):
\* the mock transcript, or a text a candidate returned
RunTranscripts(name) ==
  { [text |-> getMockTranscription(name), isMock |-> TRUE] }
  \cup
  { [text |-> d.value, isMock |-> FALSE] :
      d \in { x \in { TranscriptionSuccess(TranscriptionModels[1],
                        [status |-> 200, errorData |-> NoBody, result |-> r]) :
                      r \in TranscriptionResults } :
              ~TokenMissing /\ x.kind = "return" /\ x.value # "" } }

\* the translations a run of processAnimalSound can end with (lines 443-459):
\* a mock translation with confidence 0.6, or what a candidate made
\* translateAnimalSound return
RunTranslations(name) ==
  { [text |-> getMockTranslation(name, random), confidence |-> MockConfidence,
     isMock |-> TRUE] : random \in RandomSamples }
  \cup
  { [text |-> d.value, confidence |-> Confidence(random), isMock |-> FALSE] :
      d \in { x \in { TranslationSuccess(name,
                        [status |-> 200, errorMessage |-> <<>>, result |-> r]) :
                      r \in TranslationResults } :
              ~TokenMissing /\ x.kind = "return" },
      random \in RandomSamples }

\* lines 461-466: the records a run of processAnimalSound for the animal returns
RunRecords(name) ==
  { [kind |-> "return", text |-> l.text, confidence |-> l.confidence,
     transcribedText |-> t.text, isMockTranscription |-> t.isMock,
     isMockTranslation |-> l.isMock, message |-> <<>>] :
      t \in RunTranscripts(name), l \in RunTranslations(name) }

\* lines 26-33 of the App: handleRecordingStop runs up to its await; the call
\* of processAnimalSound is in flight
handleRecordingStopCall ==
  /\ isRecording
  /\ pc = "idle"
  /\ runCount < MaxRuns
  /\ isRecording' = FALSE
  /\ isTranslating' = TRUE
  /\ error' = NoError
  /\ runCount' = runCount + 1
  /\ inFlight' = inFlight \cup {[id |-> runCount + 1, animal |-> selectedAnimal]}
  /\ consoleWarn' = <<>>
  /\ UNCHANGED << HF_TOKEN, selectedAnimal, translation, runVars, displayedRun >>
  /\ UNCHANGED recorderVars

\* lines 33-54 of the App: the await of one of the calls in flight resumes with
\* the record processAnimalSound returned
handleRecordingStopSettle ==
  /\ \E run \in inFlight :
       /\ \E result \in RunRecords(run.animal) :
            IF result.kind = "return"
              THEN /\ translation' = DisplayedRecord(result)
                   /\ UNCHANGED error
              ELSE /\ error' = [isNull |-> FALSE, message |-> result.message]
                   /\ translation' = FallbackRecord(run.animal)
       /\ displayedRun' = run.id
       /\ inFlight' = inFlight \ {run}
  /\ isTranslating' = FALSE
  /\ consoleWarn' = <<>>
  /\ UNCHANGED << HF_TOKEN, selectedAnimal, isRecording, runVars, runCount >>
  /\ UNCHANGED recorderVars

AppNext ==
  \/ handleAnimalSelect
  \/ handleRecordingStart
  \/ handleRecordingStopCall
  \/ handleRecordingStopSettle

AppSpec == Init /\ [][AppNext]_vars

\* the record a run followed step by step returns is one of RunRecords
RunRecordsCoverRun == pc = "resolve" => pOutcome \in RunRecords(animalName)

\* C19: once no call of handleRecordingStop is in flight any more, the
\* translation displayed is the record of the call made last, also when an
\* earlier call was still in flight when it was made.
C19_LatestRecordingWins ==
  (inFlight = {} /\ ~translation.isNull) => displayedRun = runCount

(***************************************************************************)
(* Recovery inside the two candidate loops                                 *)
(***************************************************************************)

\* the answers recorded so far are those of the completion candidates
TranslationAnswers == pc \in {"translate_fetch", "translate_await", "translated"}

\* a candidate's failure was recoverable: the loop did not end on it unless
\* it was the last candidate of the list
WentOn(i, models) ==
  (i = Len(answers) /\ pc \in {"transcribed", "translated"}) => i = Len(models)

\* C21: in translateAnimalSound a candidate answering 404, 410, 500, or 503
\* when it is not the first one, does not end the loop: the next candidate is
\* attempted.
C21_CompletionStatusRecoverable ==
  TranslationAnswers =>
    \A i \in DOMAIN answers :
      (answers[i] \in {404, 410, 500} \/ (answers[i] = 503 /\ i > 1)) =>
        WentOn(i, TranslationModels)

\* C22: in translateAnimalSound a fetch that raises does not end the loop: the
\* next candidate is attempted.
C22_CompletionTransportRecoverable ==
  TranslationAnswers =>
    \A i \in DOMAIN answers :
      answers[i] = TransportFailure => WentOn(i, TranslationModels)

\* C23: within a run a request is issued only when the previous request has
\* returned or raised, and a step issues at most one request; so at most one
\* request is in flight at any time.
C23_OneRequestInFlight ==
  [][ /\ RequestIssued => (lastRequest.outcome # "pending" /\ ~AwaitingResponse)
      /\ requests' # requests => (RequestIssued \/ requests' = 0) ]_vars

C23_Witness ==
  /\ lastRequest.outcome = "pending"
  /\ lastRequest.stage = "transcription"
  /\ requests = 3

C25_TransportNeverAborts ==
  TranscriptionAnswers =>
    \A i \in DOMAIN answers :
      answers[i] = TransportFailure => WentOn(i, TranscriptionModels)

\* C26: a transcription candidate answering success without a non-empty text
\* does not end the loop; so a text returned by transcribeAnimalSound is never
\* empty, and a loop that ended on a success before the last candidate
\* returned a text.
C26_EmptyTextRecoverable ==
  ( /\ pc = "transcribed"
    /\ answers # <<>>
    /\ ResponseOk(answers[Len(answers)]) )
  => \/ tOutcome.kind = "return" /\ ~tOutcome.isNull /\ tOutcome.value # ""
     \/ Len(answers) = Len(TranscriptionModels) /\ tOutcome.kind # "return"
     \/ Len(answers) = Len(TranscriptionModels) /\ tOutcome.isNull

\* C27: transcribeAnimalSound returns the silent null only when every
\* candidate answered 410.
C27_NullOnlyWhenAllGone ==
  (pc = "transcribed" /\ tOutcome = ReturnedNull) =>
    /\ Len(answers) = Len(TranscriptionModels)
    /\ \A i \in DOMAIN answers : answers[i] = 410

\* a request in multipart/form encoding: the third and fourth delivery
\* variants of a transcription candidate
IsMultipart(request) == request.stage = "transcription" /\ request.variant >= 3

\* C28: a multipart request follows a request of the same candidate that
\* raised, and a request that obtained a response is never followed by
\* another request for the same candidate; a candidate is recorded as failed
\* by transport only after its multipart requests were sent.
C28_MultipartAfterBinaryRaised ==
  [][ /\ (RequestIssued /\ IsMultipart(lastRequest')) =>
            /\ lastRequest.stage = "transcription"
            /\ lastRequest.model = lastRequest'.model
            /\ lastRequest.variant = lastRequest'.variant - 1
            /\ lastRequest.outcome = "raised"
            /\ Len(answers) = lastRequest'.model - 1
      /\ (RequestIssued /\ lastRequest.outcome = "responded") =>
            /\ ~IsMultipart(lastRequest')
            /\ lastRequest'.model # lastRequest.model
      /\ (pc = "transcribe_fetch" /\ answers' = Append(answers, TransportFailure)) =>
            /\ lastRequest' = Request("transcription", Len(answers) + 1, 4, "raised")
            /\ lastRequest = Request("transcription", Len(answers) + 1, 3, "raised")
    ]_vars

C28_Witness ==
  /\ pc = "transcribed"
  /\ IsMultipart(lastRequest)
  /\ lastRequest.outcome = "responded"
  /\ lastRequest.model = 2
  /\ answers = <<TransportFailure, 200>>

(***************************************************************************)
(* Termination of a run whose requests settle                              *)
(***************************************************************************)
\* the steps of a run in which every fetch returns or raises
SettledRunStep ==
  \/ transcribeStart
  \/ transcribeFetchRaises
  \/ transcribeFetchAnswers
  \/ processTranscription
  \/ translateStart
  \/ translateFetchRaises
  \/ translateFetchAnswers
  \/ processTranslation
  \/ handleRecordingStopResume

LiveNext ==
  \/ handleAnimalSelect
  \/ handleRecordingStart
  \/ handleRecordingStop
  \/ transcribeStart
  \/ transcribeFetchRaises
  \/ transcribeFetchAnswers
  \/ processTranscription
  \/ translateStart
  \/ translateFetchRaises
  \/ translateFetchAnswers
  \/ processTranslation
  \/ handleRecordingStopResume

\* a continuation whose promise has settled is run by the event loop
LiveSpec == Init /\ [][LiveNext]_vars /\ WF_vars(SettledRunStep)

\* the stage of processAnimalSound a position belongs to: 0 no run,
\* 1 Transcribing, 2 Translating, 3 Assembled
Stage(position) ==
  IF position = "idle" THEN 0
  ELSE IF position \in {"transcribe", "transcribe_fetch", "transcribe_await", "transcribed"}
    THEN 1
  ELSE IF position \in {"translate", "translate_fetch", "translate_await", "translated"}
    THEN 2
  ELSE 3

\* C29: when every request returns or raises, a run passes through
\* Transcribing, Translating and Assembled in this order, one after the other
\* and never back; it ends with a record, which the App displays; and
\* isTranslating becomes false again.
C29_RunTerminates ==
  /\ [][ /\ Stage(pc') = Stage(pc) \/ Stage(pc') = (Stage(pc) + 1) % 4
         /\ (pc = "resolve" /\ pc' = "idle") =>
              /\ pOutcome.kind = "return"
              /\ ~translation'.isNull
              /\ translation'.text = pOutcome.text
              /\ ~isTranslating' ]_vars
  /\ isTranslating ~> (~isTranslating /\ pc = "idle")
  /\ (pc # "idle") ~> (pc = "idle")

C29_Witness ==
  /\ pc = "idle"
  /\ ~isTranslating
  /\ ~translation.isNull
  /\ translation.text = "Feed me now!"
  /\ ~translation.isMockTranscription

C31_TranslatingWhileInFlight == isTranslating <=> inFlight # {}

\* C32: a run whose completion makes a record visible was started for the
\* animal selected now, and no recording was started since its call.
C32_NoStaleRecord ==
  [][ \A run \in inFlight :
        (inFlight' = inFlight \ {run} /\ ~translation'.isNull) =>
          /\ run.animal = selectedAnimal
          /\ ~isRecording ]_vars

(***************************************************************************)
(* VoiceRecorder                                                           *)
(*                                                                         *)
(* The component with its refs; stream i is the one the i-th granted call  *)
(* of getUserMedia returned, and recorder i is the MediaRecorder created   *)
(* on it.  Of the parent's callbacks only the effect on the App's state is *)
(* kept: the run that onRecordingStop starts is not followed here.         *)
(***************************************************************************)
MaxStreams == 3

\* lines 72-75, 104-107 and 124-127: the tracks of streamRef.current are
\* stopped, if there is one
StopTracks ==
  IF streamRef = 0 THEN streams ELSE [streams EXCEPT ![streamRef] = "stopped"]

notRecorderVars ==
  << HF_TOKEN, selectedAnimal, runVars, asyncVars >>

\* lines 69-86: the Start button, shown while isRecording is false, calls
\* startRecording, which runs up to the await of getUserMedia; stop() makes a
\* recorder inactive at once and queues its stop event
startRecording ==
  /\ selectedAnimal # NoAnimal
  /\ ~isRecording
  /\ Len(streams) + awaitingAccess < MaxStreams
  /\ streams' = StopTracks
  /\ streamRef' = 0
  /\ IF mediaRecorderRef # 0 /\ recorders[mediaRecorderRef] # "inactive"
       THEN /\ recorders' = [recorders EXCEPT ![mediaRecorderRef] = "inactive"]
            /\ onstopQueued' = onstopQueued \cup {mediaRecorderRef}
       ELSE UNCHANGED << recorders, onstopQueued >>
  /\ awaitingAccess' = awaitingAccess + 1
  /\ consoleWarn' = <<>>
  /\ UNCHANGED << mediaRecorderRef, isRecording, translation, isTranslating, error >>
  /\ UNCHANGED notRecorderVars

\* lines 86-119, and lines 21-24 of the App: getUserMedia grants a stream; the
\* call stores it, creates and starts a recorder and calls onRecordingStart
startRecordingGranted ==
  /\ awaitingAccess > 0
  /\ awaitingAccess' = awaitingAccess - 1
  /\ streams' = Append(streams, "live")
  /\ streamRef' = Len(streams) + 1
  /\ recorders' = Append(recorders, "recording")
  /\ mediaRecorderRef' = Len(recorders) + 1
  /\ isRecording' = TRUE
  /\ translation' = NoTranslation
  /\ consoleWarn' = <<>>
  /\ UNCHANGED << onstopQueued, isTranslating, error >>
  /\ UNCHANGED notRecorderVars

\* lines 86 and 120-128: getUserMedia rejects; the catch stops the stream
\* streamRef holds
startRecordingDenied ==
  /\ awaitingAccess > 0
  /\ awaitingAccess' = awaitingAccess - 1
  /\ streams' = StopTracks
  /\ streamRef' = 0
  /\ consoleWarn' = <<>>
  /\ UNCHANGED << recorders, mediaRecorderRef, onstopQueued, isRecording, translation,
                  isTranslating, error >>
  /\ UNCHANGED notRecorderVars

\* lines 131-150: the Stop button, shown while isRecording is true, calls
\* stopRecording, which stops the recorder mediaRecorderRef holds when it is
\* recording
stopRecording ==
  /\ isRecording
  /\ mediaRecorderRef # 0
  /\ recorders[mediaRecorderRef] = "recording"
  /\ recorders' = [recorders EXCEPT ![mediaRecorderRef] = "inactive"]
  /\ onstopQueued' = onstopQueued \cup {mediaRecorderRef}
  /\ consoleWarn' = <<>>
  /\ UNCHANGED << streams, streamRef, mediaRecorderRef, awaitingAccess, isRecording,
                  translation, isTranslating, error >>
  /\ UNCHANGED notRecorderVars

\* lines 98-111, and lines 26-29 of the App: the stop event of a recorder is
\* delivered; its handler stops the stream streamRef holds and calls
\* onRecordingStop
onstop ==
  /\ \E recorder \in onstopQueued : onstopQueued' = onstopQueued \ {recorder}
  /\ streams' = StopTracks
  /\ streamRef' = 0
  /\ isRecording' = FALSE
  /\ isTranslating' = TRUE
  /\ error' = NoError
  /\ consoleWarn' = <<>>
  /\ UNCHANGED << recorders, mediaRecorderRef, awaitingAccess, translation >>
  /\ UNCHANGED notRecorderVars

RecorderNext ==
  \/ handleAnimalSelect
  \/ startRecording
  \/ startRecordingGranted
  \/ startRecordingDenied
  \/ stopRecording
  \/ onstop

RecorderSpec == Init /\ [][RecorderNext]_vars

\* C33: at most one MediaRecorder is recording, and no acquired stream is
\* left live without streamRef holding it, the only way the component has
\* of stopping it.
C33_OneRecorderNoLeak ==
  /\ Cardinality({ i \in DOMAIN recorders : recorders[i] = "recording" }) <= 1
  /\ \A i \in DOMAIN streams : streams[i] = "live" => streamRef = i

(***************************************************************************)
(* The error lists and the number of requests                              *)
(***************************************************************************)
\* the run is inside one of the two candidate loops
InLoop ==
  pc \in {"transcribe_fetch", "transcribe_await", "translate_fetch", "translate_await"}

\* the candidate list of the loop the run is in or has just left
LoopModels ==
  IF pc \in {"transcribe_fetch", "transcribe_await", "transcribed"}
    THEN TranscriptionModels ELSE TranslationModels

\* the number of entries listed in the summary of all failures
Listed(message) == Cardinality({ i \in DOMAIN message : message[i] = "\n" }) - 1

\* C34: while a loop runs, errors holds one entry for each candidate left
\* behind, in candidate order; the summary raised on exhaustion lists one
\* entry per configured candidate, and the outcomes of the branches for an
\* empty error list never occur.
C34_OneEntryPerFailedCandidate ==
  /\ InLoop =>
       /\ Len(errors) = Len(answers)
       /\ modelIdx = Len(errors) + 1
       /\ \A i \in DOMAIN errors : Includes(errors[i], LoopModels[i])
  /\ pc = "transcribed" =>
       /\ tOutcome # Thrown(<<"Transcription failed:", "All transcription models failed">>)
       /\ tOutcome = ReturnedNull => Len(answers) = Len(TranscriptionModels)
       /\ Includes(tOutcome.message, "All transcription models failed.") =>
            /\ Len(answers) = Len(TranscriptionModels)
            /\ Listed(tOutcome.message) = Len(TranscriptionModels)
  /\ pc = "translated" =>
       /\ lOutcome # Thrown(<<"Translation failed:", "Translation failed: Unknown error">>)
       /\ Includes(lOutcome.message, "All translation models failed.") =>
            /\ Len(answers) = Len(TranslationModels)
            /\ Listed(lOutcome.message) = Len(TranslationModels)

C34_Witness ==
  /\ pc = "transcribed"
  /\ answers = <<500, 200>>
  /\ Includes(tOutcome.message, "All transcription models failed.")
  /\ Listed(tOutcome.message) = 2

\* C35: a transcription candidate is sent at most four requests, the delivery
\* variants in their order, each after the previous one raised; a completion
\* candidate is sent one; a candidate that answered is not sent another
\* request; so a stage sends at most four requests, respectively one, per
\* candidate of its list, and a run with the lists of the source at most
\* 6*4 + 5 = 29.
C35_RequestBudget ==
  /\ 4 * Len(AllTranscriptionModels) + Len(AllTranslationModels) = 29
  /\ pc \in {"transcribe_fetch", "transcribe_await", "transcribed"} =>
       /\ requests <= 4 * Len(TranscriptionModels)
       /\ requests <= 4 * Len(answers) + (IF pc = "transcribed" THEN 0 ELSE 4)
       /\ lastRequest # NoRequest =>
            /\ lastRequest.stage = "transcription"
            /\ lastRequest.variant \in 1..4
  /\ (pc = "transcribe_fetch" /\ variant > 1) =>
       lastRequest = Request("transcription", Len(answers) + 1, variant - 1, "raised")
  /\ pc \in {"translate_fetch", "translate_await", "translated"} =>
       /\ requests <= Len(TranslationModels)
       /\ requests = Len(answers) + (IF pc = "translate_await" THEN 1 ELSE 0)
       /\ lastRequest # NoRequest =>
            /\ lastRequest.stage = "completion"
            /\ lastRequest.variant = 1
  /\ (InLoop /\ lastRequest.outcome = "responded") =>
       /\ modelIdx = lastRequest.model + 1
       /\ Len(answers) = lastRequest.model
       /\ pc = "transcribe_fetch" => variant = 1

C35_Witness ==
  /\ pc = "transcribed"
  /\ requests = 4 * Len(TranscriptionModels)
  /\ lastRequest.variant = 4

=============================================================================
